---- MODULE Spec2Model ----
(***************************************************************************)
(* Model of the MADR catalog service: the text sanitizers of               *)
(* madr/utils/sanitize_data.py, the author, book, account and token        *)
(* handlers of madr/routers, the token and password functions of           *)
(* madr/security, over the authors, books and accounts tables.             *)
(*                                                                         *)
(* A text is a sequence of one-character strings.  Time is counted in      *)
(* whole ticks, the unit of the exp claim of a token.                      *)
(***************************************************************************)
EXTENDS Integers, Sequences, FiniteSets, TLC

(***************************************************************************)
(* Bounds                                                                  *)
(***************************************************************************)
\* longest input text of the sanitizer specification
MaxLen == 3
\* number of author ids the authors_id_seq sequence hands out
MaxAuthors == 2
\* number of book ids the books_id_seq sequence hands out
MaxBooks == 2
\* number of account ids the accounts id sequence hands out
MaxAccounts == 2
\* number of access tokens the clients hold at a time (older ones are forgotten)
MaxTokens == 1
\* last tick of the clock
MaxTime == 3
\* settings.ACCESS_TOKEN_EXPIRE_MINUTES, in ticks of the clock
TokenTtl == 2
\* number of create requests in flight at a time
MaxRequests == 2

(***************************************************************************)
(* Characters                                                              *)
(***************************************************************************)
Lower == {"a", "b"}
Upper == {"A", "B"}
Space == {" ", "\t", "\n"}
Marks == {"?", "!"}
Alphabet == Lower \cup Upper \cup Space \cup Marks

\* str.isspace / the class \s of re
IsSpace(c) == c \in Space

\* a character with a case (a letter)
IsCased(c) == c \in Lower \cup Upper

\* str.lower on one character
lower(c) == CASE c = "A" -> "a" [] c = "B" -> "b" [] OTHER -> c

\* str.upper (and title case) on one character
upper(c) == CASE c = "a" -> "A" [] c = "b" -> "B" [] OTHER -> c

(***************************************************************************)
(* sanitize_data.py                                                        *)
(***************************************************************************)
\* text.lower()
str_lower(s) == [i \in 1..Len(s) |-> lower(s[i])]

RECURSIVE lstrip(_)
lstrip(s) == IF s # <<>> /\ IsSpace(Head(s)) THEN lstrip(Tail(s)) ELSE s

RECURSIVE rstrip(_)
rstrip(s) ==
    IF s # <<>> /\ IsSpace(s[Len(s)]) THEN rstrip(SubSeq(s, 1, Len(s) - 1)) ELSE s

\* a strip that drops at most one whitespace character at each end
strip_one(s) ==
    LET l == IF s # <<>> /\ IsSpace(Head(s)) THEN Tail(s) ELSE s
    IN  IF l # <<>> /\ IsSpace(l[Len(l)]) THEN SubSeq(l, 1, Len(l) - 1) ELSE l

\* text.strip()
str_strip(s) == rstrip(lstrip(s))

\* re.sub(r'[?!]', '', text)
remove_marks(s) == SelectSeq(s, LAMBDA c : c \notin Marks)

\* re.sub(r'\s+', ' ', text)
RECURSIVE collapse_ws(_)
collapse_ws(s) ==
    IF s = <<>> THEN <<>>
    ELSE IF IsSpace(Head(s)) THEN <<" ">> \o collapse_ws(lstrip(s))
    ELSE <<Head(s)>> \o collapse_ws(Tail(s))

\* text.title(): a letter that follows a letter is lower-cased, any other
\* letter is upper-cased
str_title(s) ==
    [i \in 1..Len(s) |->
        IF i > 1 /\ IsCased(s[i - 1]) THEN lower(s[i]) ELSE upper(s[i])]

sanitize_text_in(text0) ==
    collapse_ws(remove_marks(str_strip(str_lower(text0))))

sanitize_text_out(text0) ==
    str_title(collapse_ws(str_strip(text0)))

(***************************************************************************)
(* State                                                                   *)
(*                                                                         *)
(* In the specifications of the authors, of the catalog, of the accounts   *)
(* and of the tokens every request is handled alone, from its lookups to   *)
(* its commit; the author and book requests there come from a caller       *)
(* whose token get_current_account resolved.  A request handled alone      *)
(* never reaches the unique constraints on authors.name and books.title    *)
(* nor the foreign key of books.author_id: the lookup each handler makes   *)
(* before it writes refuses at least what the constraint would refuse.     *)
(* update_account makes no lookup and rests on the unique constraints of   *)
(* the accounts table.  The specification of the concurrent creates        *)
(* splits a handler at its commit; the specification of one request has    *)
(* the token among the inputs of every handler that requires one.          *)
(***************************************************************************)

VARIABLES
    authors,       \* authors table: id -> name
    books,         \* books table: id -> [title, year, author_id]
    nextAuthorId,  \* next value of the authors id sequence
    nextBookId,    \* next value of the books id sequence
    last,          \* the last request handled and its outcome
    text,          \* sanitizer specification: the input text
    result,        \* sanitizer specification: the output text
    applied,       \* sanitizer specification: the sanitizer that ran
    accounts,      \* accounts table: id -> [username, email, password]
    nextAccountId, \* next value of the accounts id sequence
    tokens,        \* access tokens issued and still held by clients
    now,           \* the clock, in whole ticks
    auth,          \* how get_current_account ended for the last request
    inflight,      \* concurrent create requests between pre-check and commit
    issued         \* history: <<token, id>> of the account a held token was
                   \* issued to

vars == <<authors, books, nextAuthorId, nextBookId, last, text, result, applied,
          accounts, nextAccountId, tokens, now, auth, inflight, issued>>
catalogVars == <<authors, books, nextAuthorId, nextBookId, last>>
textVars == <<text, result, applied>>
accountVars == <<accounts, nextAccountId, tokens, now, auth, issued>>
concVars == <<inflight>>

RECURSIVE TextsOfLen(_)
TextsOfLen(n) ==
    IF n = 0 THEN {<<>>}
    ELSE {Append(s, c) : s \in TextsOfLen(n - 1), c \in Alphabet}

Texts == UNION {TextsOfLen(n) : n \in 0..MaxLen}


(***************************************************************************)
(* Request inputs                                                          *)
(***************************************************************************)
\* an omitted optional text field (None)
None == <<"None">>
\* an omitted optional year (None)
NoYear == <<>>

\* author names submitted in the specification of the authors
NameTexts ==
    { <<"a">>,
      <<"A", "?">>,
      <<"a", " ", "?">>,
      <<"b">> }

\* author names submitted in the specification of the whole catalog
CatalogNames == { <<"a">> }

\* book titles submitted
TitleTexts ==
    { <<"a">>,
      <<"A", "?">>,
      <<"b">> }

\* years submitted for books
Years == {-1, 0, 1}

AuthorIds == 1..MaxAuthors
BookIds == 1..MaxBooks

\* the outcome of a request: the HTTPException raised (status_code, detail)
\* or the successful status, with the id the request names (the id given to
\* a created author) and the row its lookup found (0: none, or no lookup)
Response(op, id, found, status, detail) ==
    [op |-> op, id |-> id, found |-> found, status |-> status,
     detail |-> detail]

\* a table without the row of key k
Remove(f, k) == [x \in DOMAIN f \ {k} |-> f[x]]

\* a table with the row of key k set to v
Put(f, k, v) == [x \in DOMAIN f \cup {k} |-> IF x = k THEN v ELSE f[x]]

\* session.scalar(select(...)): one of the matching rows, None (0) without one
Scalar(matches) == IF matches = {} THEN {0} ELSE matches

(***************************************************************************)
(* author_schema.py, book_schema.py: the field validators                  *)
(***************************************************************************)
\* AuthorSchema.sanitize_name
AuthorSchema_name(t) == sanitize_text_in(t)

\* AuthorUpdate.sanitize_username (not run on an omitted field)
AuthorUpdate_name(t) == IF t = None THEN None ELSE sanitize_text_out(t)

\* BookSchema.sanitize_book_title
BookSchema_title(t) == sanitize_text_in(t)

\* BookUpdate.sanitize_book_title (not run on an omitted field)
BookUpdate_title(t) == IF t = None THEN None ELSE sanitize_text_in(t)

\* truth value of an optional text: None and '' are false
Truthy(t) == t # None /\ t # <<>>

(***************************************************************************)
(* Initial states                                                          *)
(***************************************************************************)
NoRequest == Response("none", 0, 0, 0, "")

CatalogInit ==
    /\ authors = <<>>
    /\ books = <<>>
    /\ nextAuthorId = 1
    /\ nextBookId = 1
    /\ last = NoRequest

TextIdle ==
    /\ text = <<>>
    /\ result = <<>>
    /\ applied = "none"

AccountInit ==
    /\ accounts = <<>>
    /\ nextAccountId = 1
    /\ tokens = {}
    /\ now = 0
    /\ auth = "none"
    /\ issued = {}

ConcIdle == inflight = <<>>

Init == CatalogInit /\ TextIdle /\ AccountInit /\ ConcIdle

(***************************************************************************)
(* authors_router.py                                                       *)
(***************************************************************************)
\* select(Author).where(Author.name == name)
AuthorsNamed(name) == {i \in DOMAIN authors : authors[i] = name}

\* a deletion that leaves the owned books behind
delete_no_cascade(bs, author_id) == bs

\* a deletion that takes every book with it
delete_every_book(bs, author_id) == <<>>

\* session.delete(author) on the books table: the owned books go with the
\* author (cascade='all, delete-orphan')
delete_cascade(bs, author_id) ==
    [b \in {x \in DOMAIN bs : bs[x].author_id # author_id} |-> bs[b]]

\* a conflict test that does not exclude the author itself
author_conflict_any(existing_author, author_id) == existing_author # 0

\* existing_author and existing_author.id != author_id
author_conflict(existing_author, author_id) ==
    existing_author # 0 /\ existing_author # author_id

create_author(name0) ==
    LET name == AuthorSchema_name(name0) IN
    \E author_db \in Scalar(AuthorsNamed(name)) :
        IF author_db # 0
        THEN /\ last' = Response("create_author", 0, author_db, 400,
                                 "Author already exists")
             /\ UNCHANGED <<authors, books, nextAuthorId, nextBookId>>
        ELSE /\ nextAuthorId <= MaxAuthors
             /\ authors' = Put(authors, nextAuthorId, name)
             /\ nextAuthorId' = nextAuthorId + 1
             /\ last' = Response("create_author", nextAuthorId, 0, 201,
                                 "")
             /\ UNCHANGED <<books, nextBookId>>

delete_author(author_id) ==
    IF author_id \notin DOMAIN authors
    THEN /\ last' = Response("delete_author", author_id, 0, 404,
                             "Author not found")
         /\ UNCHANGED <<authors, books, nextAuthorId, nextBookId>>
    ELSE /\ authors' = Remove(authors, author_id)
         /\ books' = delete_cascade(books, author_id)
         /\ last' = Response("delete_author", author_id, author_id, 200,
                             "Author deleted successfully")
         /\ UNCHANGED <<nextAuthorId, nextBookId>>

update_author(author_id, name0) ==
    LET name == AuthorUpdate_name(name0) IN
    IF author_id \notin DOMAIN authors
    THEN /\ last' = Response("update_author", author_id, 0, 404,
                             "Author not found")
         /\ UNCHANGED <<authors, books, nextAuthorId, nextBookId>>
    ELSE IF Truthy(name)
    THEN \E existing_author \in Scalar(AuthorsNamed(name)) :
            IF author_conflict(existing_author, author_id)
            THEN /\ last' = Response("update_author", author_id, existing_author, 400,
                                     "Author already exists")
                 /\ UNCHANGED <<authors, books, nextAuthorId, nextBookId>>
            ELSE /\ authors' = Put(authors, author_id, name)
                 /\ last' = Response("update_author", author_id, existing_author, 200, "")
                 /\ UNCHANGED <<books, nextAuthorId, nextBookId>>
    ELSE /\ last' = Response("update_author", author_id, 0, 200, "")
         /\ UNCHANGED <<authors, books, nextAuthorId, nextBookId>>

(***************************************************************************)
(* books_router.py                                                         *)
(***************************************************************************)
\* select(Book).where(func.lower(Book.title) == title.lower())
BooksTitled(title) ==
    {i \in DOMAIN books : str_lower(books[i].title) = str_lower(title)}

\* an author lookup that finds every id
author_found_always(author_id) == TRUE

\* session.get(Author, book.author_id)
author_found(author_id) == author_id \in DOMAIN authors

\* a conflict test that is never true
book_conflict_never(existing_book, book_id) == FALSE

\* existing_book and existing_book.id != book_id
book_conflict(existing_book, book_id) ==
    existing_book # 0 /\ existing_book # book_id

create_book(title0, year, author_id) ==
    LET title == BookSchema_title(title0) IN
    IF ~author_found(author_id)
    THEN /\ last' = Response("create_book", author_id, 0, 404,
                             "Author not found")
         /\ UNCHANGED <<authors, books, nextAuthorId, nextBookId>>
    ELSE \E book_db \in Scalar(BooksTitled(title)) :
        IF book_db # 0
        THEN /\ last' = Response("create_book", author_id, book_db,
                                 400, "Book already exists")
             /\ UNCHANGED <<authors, books, nextAuthorId, nextBookId>>
        ELSE /\ nextBookId <= MaxBooks
             /\ books' = Put(books, nextBookId,
                    [title |-> title, year |-> year, author_id |-> author_id])
             /\ nextBookId' = nextBookId + 1
             /\ last' = Response("create_book", author_id, 0, 201, "")
             /\ UNCHANGED <<authors, nextAuthorId>>

delete_book(book_id) ==
    IF book_id \notin DOMAIN books
    THEN /\ last' = Response("delete_book", book_id, 0, 404,
                             "Book not found")
         /\ UNCHANGED <<authors, books, nextAuthorId, nextBookId>>
    ELSE /\ books' = Remove(books, book_id)
         /\ last' = Response("delete_book", book_id, book_id, 200,
                             "Book deleted successfully")
         /\ UNCHANGED <<authors, nextAuthorId, nextBookId>>

update_book(book_id, title0, year0) ==
    LET title == BookUpdate_title(title0)
        \* if book_data.year: None and 0 are false
        setYear == year0 # NoYear /\ year0[1] # 0
        newYear == IF setYear THEN year0[1] ELSE books[book_id].year
    IN
    IF book_id \notin DOMAIN books
    THEN /\ last' = Response("update_book", book_id, 0, 404,
                             "Book not found")
         /\ UNCHANGED <<authors, books, nextAuthorId, nextBookId>>
    ELSE IF Truthy(title)
    THEN \E existing_book \in Scalar(BooksTitled(title)) :
            IF book_conflict(existing_book, book_id)
            THEN /\ last' = Response("update_book", book_id, existing_book, 400, "Book already exists")
                 /\ UNCHANGED <<authors, books, nextAuthorId, nextBookId>>
            ELSE /\ books' = Put(books, book_id,
                        [title |-> title, year |-> newYear,
                         author_id |-> books[book_id].author_id])
                 /\ last' = Response("update_book", book_id, existing_book, 200, "")
                 /\ UNCHANGED <<authors, nextAuthorId, nextBookId>>
    ELSE /\ books' = Put(books, book_id,
                [title |-> books[book_id].title, year |-> newYear,
                 author_id |-> books[book_id].author_id])
         /\ last' = Response("update_book", book_id, 0, 200, "")
         /\ UNCHANGED <<authors, nextAuthorId, nextBookId>>

(***************************************************************************)
(* Accounts and access tokens: the inputs of the requests                  *)
(***************************************************************************)
\* usernames submitted
UsernameTexts ==
    { <<"a">>,
      <<"A", "?">>,
      <<"b">> }

\* e-mail addresses submitted (EmailStr values)
Emails == {"e1", "e2"}

\* passwords submitted
Passwords == { <<"p1">>, <<"p2">> }

AccountIds == 1..MaxAccounts

\* payload.get('sub') of a token that carries no subject
NoSub == ""

\* a bearer string that is not a token signed with SECRET_KEY
Garbage == [kind |-> "garbage", sub |-> NoSub, exp |-> 0]

\* the bearer strings a request can carry
Bearers == tokens \cup {Garbage}

AccountSchema_username(t) == sanitize_text_in(t)

(***************************************************************************)
(* password_check.py, generate_token.py, account_check.py                  *)
(***************************************************************************)
\* pwd_context.hash: the salt is left out, verification depends only on
\* the plaintext that was hashed
get_password_hash(password) == <<"$argon2id$", password[1]>>

verify_any(plain_password, hashed_password) == TRUE

verify_password(plain_password, hashed_password) ==
    /\ Len(hashed_password) = 2
    /\ hashed_password[1] = "$argon2id$"
    /\ hashed_password[2] = plain_password[1]

\* the token signed for the subject sub at the present tick
create_access_token_late(sub) ==
    [kind |-> "jwt", sub |-> sub, exp |-> now + TokenTtl + 1]

create_access_token(sub) ==
    [kind |-> "jwt", sub |-> sub, exp |-> now + TokenTtl]

\* jwt.decode: the payload, or the exception it raises
decode_without_exp(token) ==
    IF token.kind # "jwt" THEN "DecodeError" ELSE "payload"

decode(token) ==
    IF token.kind # "jwt" THEN "DecodeError"
    ELSE IF token.exp <= now THEN "ExpiredSignatureError"
    ELSE "payload"

AccountsWithEmail(email) ==
    {i \in DOMAIN accounts : accounts[i].email = email}

\* credentials_exception, raised on every failure path
token_failure_leaky(cause) ==
    IF cause = "no_account"
    THEN [status |-> 401, detail |-> "Account not found"]
    ELSE [status |-> 401, detail |-> "Could not validate credentials"]

token_failure_expired_hint(cause) ==
    IF cause = "ExpiredSignatureError"
    THEN [status |-> 401, detail |-> "Token expired"]
    ELSE [status |-> 401, detail |-> "Could not validate credentials"]

token_failure(cause) ==
    [status |-> 401, detail |-> "Could not validate credentials"]

\* the outcomes of get_current_account: the cause of the failure, or "ok"
\* and the id of the account the token resolves to
get_current_account(token) ==
    IF decode(token) # "payload"
    THEN {[cause |-> decode(token), id |-> 0]}
    ELSE IF token.sub = NoSub
    THEN {[cause |-> "no_subject", id |-> 0]}
    ELSE {IF i = 0 THEN [cause |-> "no_account", id |-> 0]
                   ELSE [cause |-> "ok", id |-> i] :
          i \in Scalar(AccountsWithEmail(token.sub))}

\* the response of a request whose token did not resolve
Unauthorized(op, id, cause) ==
    Response(op, id, 0, token_failure(cause).status,
             token_failure(cause).detail)

\* the tokens the clients hold once token is handed to one of them
Hold(token) ==
    {kept \cup {token} :
         kept \in {k \in SUBSET tokens : Cardinality(k) < MaxTokens}}

(***************************************************************************)
(* models/account.py: the unique constraints of the accounts table         *)
(***************************************************************************)
unique_never(tbl) == FALSE

\* a table whose only unique column is the email
unique_emails_only(tbl) ==
    \E i, j \in DOMAIN tbl : i # j /\ tbl[i].email = tbl[j].email

\* the commit raises IntegrityError: two rows share a username or an email
unique_violation(tbl) ==
    \E i, j \in DOMAIN tbl :
        /\ i # j
        /\ \/ tbl[i].username = tbl[j].username
           \/ tbl[i].email = tbl[j].email

(***************************************************************************)
(* accounts_router.py: the handlers                                        *)
(***************************************************************************)
AccountsMatching(username, email) ==
    {i \in DOMAIN accounts :
         accounts[i].username = username \/ accounts[i].email = email}

\* the password column written by create_account and update_account
stored_plain(password) == password

stored_password(password) == get_password_hash(password)

create_account(username0, email, password) ==
    LET username == AccountSchema_username(username0) IN
    /\ \E db_account \in Scalar(AccountsMatching(username, email)) :
        IF db_account # 0 /\ accounts[db_account].username = username
        THEN /\ last' = Response("create_account", 0, db_account, 400,
                                 "Username already exists")
             /\ UNCHANGED <<accounts, nextAccountId>>
        ELSE IF db_account # 0 /\ accounts[db_account].email = email
        THEN /\ last' = Response("create_account", 0, db_account, 400,
                                 "Email already exists")
             /\ UNCHANGED <<accounts, nextAccountId>>
        ELSE /\ nextAccountId <= MaxAccounts
             /\ LET inserted ==
                        Put(accounts, nextAccountId,
                            [username |-> username, email |-> email,
                             password |-> stored_password(password)])
                IN  IF unique_violation(inserted)
                    THEN /\ last' = Response("create_account", 0, 0, 500,
                                             "Internal Server Error")
                         /\ UNCHANGED <<accounts, nextAccountId>>
                    ELSE /\ accounts' = inserted
                         /\ nextAccountId' = nextAccountId + 1
                         /\ last' = Response("create_account",
                                             nextAccountId, 0, 201, "")
    /\ auth' = "none"
    /\ UNCHANGED <<authors, books, nextAuthorId, nextBookId, tokens, now>>

\* the accounts table after the commit of update_account raised
\* IntegrityError: the transaction is rolled back
not_rolled_back(tbl, updated) == updated

rolled_back(tbl, updated) == tbl

\* current_account.id != account_id
not_permitted_never(current_id, account_id) == FALSE

not_permitted(current_id, account_id) == current_id # account_id

update_account(token, account_id, username0, email, password) ==
    /\ \E current \in get_current_account(token) :
        /\ auth' = current.cause
        /\ IF current.id = 0
           THEN /\ last' = Unauthorized("update_account", account_id,
                                        current.cause)
                /\ UNCHANGED accounts
           ELSE IF not_permitted(current.id, account_id)
           THEN /\ last' = Response("update_account", account_id,
                                    current.id, 403,
                                    "Not enough permissions")
                /\ UNCHANGED accounts
           ELSE LET updated ==
                        Put(accounts, current.id,
                            [username |-> AccountSchema_username(username0),
                             email |-> email,
                             password |-> stored_password(password)])
                IN  IF unique_violation(updated)
                    THEN /\ last' = Response("update_account", account_id,
                                             current.id, 409,
                                             "Username or email already exists")
                         /\ accounts' = rolled_back(accounts, updated)
                    ELSE /\ accounts' = updated
                         /\ last' = Response("update_account", account_id,
                                             current.id, 200, "")
    /\ UNCHANGED <<authors, books, nextAuthorId, nextBookId,
                   nextAccountId, tokens, now>>

delete_account(token, account_id) ==
    /\ \E current \in get_current_account(token) :
        /\ auth' = current.cause
        /\ IF current.id = 0
           THEN /\ last' = Unauthorized("delete_account", account_id,
                                        current.cause)
                /\ UNCHANGED accounts
           ELSE IF not_permitted(current.id, account_id)
           THEN /\ last' = Response("delete_account", account_id,
                                    current.id, 403,
                                    "Not enough permissions")
                /\ UNCHANGED accounts
           ELSE /\ accounts' = Remove(accounts, current.id)
                /\ last' = Response("delete_account", account_id,
                                    current.id, 200,
                                    "Account deleted successfully")
    /\ UNCHANGED <<authors, books, nextAuthorId, nextBookId,
                   nextAccountId, tokens, now>>

(***************************************************************************)
(* auth_routers.py: the handlers                                           *)
(***************************************************************************)
\* the HTTPException of a login that fails
login_failure_leaky(cause) ==
    IF cause = "no_account"
    THEN [status |-> 400, detail |-> "Incorrect email"]
    ELSE [status |-> 400, detail |-> "Incorrect email or password"]

login_failure(cause) ==
    [status |-> 400, detail |-> "Incorrect email or password"]

login_for_access_token(username, password) ==
    /\ \E account \in Scalar(AccountsWithEmail(username)) :
        IF account = 0
        THEN /\ last' = Response("login", 0, 0,
                                 login_failure("no_account").status,
                                 login_failure("no_account").detail)
             /\ UNCHANGED tokens
        ELSE IF ~verify_password(password, accounts[account].password)
        THEN /\ last' = Response("login", 0, account,
                                 login_failure("bad_password").status,
                                 login_failure("bad_password").detail)
             /\ UNCHANGED tokens
        ELSE /\ tokens' \in Hold(create_access_token(accounts[account].email))
             /\ last' = Response("login", account, account, 200, "")
    /\ auth' = "none"
    /\ UNCHANGED <<authors, books, nextAuthorId, nextBookId,
                   accounts, nextAccountId, now>>

refresh_access_token(token) ==
    /\ \E current \in get_current_account(token) :
        /\ auth' = current.cause
        /\ IF current.id = 0
           THEN /\ last' = Unauthorized("refresh", 0, current.cause)
                /\ UNCHANGED tokens
           ELSE /\ tokens' \in
                       Hold(create_access_token(accounts[current.id].email))
                /\ last' = Response("refresh", current.id, current.id,
                                    200, "")
    /\ UNCHANGED <<authors, books, nextAuthorId, nextBookId,
                   accounts, nextAccountId, now>>

\* history of the tokens: a login or a refresh that succeeds hands its
\* token to the account it answered; tokens no client holds are forgotten
RecordIssue ==
    issued' =
        IF last'.status = 200
        THEN {p \in issued \cup
                    {<<create_access_token(accounts[last'.id].email),
                       last'.id>>} : p[1] \in tokens'}
        ELSE issued

(***************************************************************************)
(* Specification of the accounts: account requests and logins in any       *)
(* order, at one tick of the clock                                         *)
(***************************************************************************)
CreateAccount ==
    /\ \E u \in UsernameTexts, e \in Emails, p \in Passwords :
           create_account(u, e, p)
    /\ UNCHANGED <<textVars, concVars, issued>>

UpdateAccount ==
    /\ \E t \in Bearers, i \in AccountIds, u \in UsernameTexts,
          e \in Emails, p \in Passwords : update_account(t, i, u, e, p)
    /\ UNCHANGED <<textVars, concVars, issued>>

DeleteAccount ==
    /\ \E t \in Bearers, i \in AccountIds : delete_account(t, i)
    /\ UNCHANGED <<textVars, concVars, issued>>

Login ==
    /\ \E e \in Emails, p \in Passwords : login_for_access_token(e, p)
    /\ RecordIssue
    /\ UNCHANGED <<textVars, concVars>>

AccountNext ==
    \/ CreateAccount
    \/ UpdateAccount
    \/ DeleteAccount
    \/ Login

AccountSpec == Init /\ [][AccountNext]_vars

(***************************************************************************)
(* Specification of the tokens: accounts are created and deleted, tokens   *)
(* are issued and presented while the clock advances                       *)
(***************************************************************************)
\* the username and the password of the accounts of this specification
TokenUsernames == { <<"a">> }
TokenPasswords == { <<"p1">> }

TokenCreateAccount ==
    /\ \E u \in TokenUsernames, e \in Emails, p \in TokenPasswords :
           create_account(u, e, p)
    /\ UNCHANGED <<textVars, concVars, issued>>

Refresh ==
    /\ \E t \in Bearers : refresh_access_token(t)
    /\ RecordIssue
    /\ UNCHANGED <<textVars, concVars>>

\* create_access_token called with data that holds no 'sub'
IssueWithoutSubject ==
    /\ tokens' \in Hold(create_access_token(NoSub))
    /\ issued' = {p \in issued : p[1] \in tokens'}
    /\ UNCHANGED <<catalogVars, textVars, concVars,
                   accounts, nextAccountId, now, auth>>

\* the clock advances by one tick
Tick ==
    /\ now < MaxTime
    /\ now' = now + 1
    /\ UNCHANGED <<catalogVars, textVars, concVars,
                   accounts, nextAccountId, tokens, auth, issued>>

TokenNext ==
    \/ TokenCreateAccount
    \/ DeleteAccount
    \/ Login
    \/ Refresh
    \/ IssueWithoutSubject
    \/ Tick

TokenSpec == Init /\ [][TokenNext]_vars

(***************************************************************************)
(* Specification of the authors: create_author, update_author and          *)
(* delete_author requests in any order (no book exists)                    *)
(***************************************************************************)
CreateAuthor ==
    /\ \E t \in NameTexts : create_author(t)
    /\ UNCHANGED <<textVars, accountVars, concVars>>

DeleteAuthor ==
    /\ \E a \in AuthorIds : delete_author(a)
    /\ UNCHANGED <<textVars, accountVars, concVars>>

UpdateAuthor ==
    /\ \E a \in AuthorIds, t \in NameTexts \cup {None} : update_author(a, t)
    /\ UNCHANGED <<textVars, accountVars, concVars>>

AuthorNext == CreateAuthor \/ DeleteAuthor \/ UpdateAuthor

AuthorSpec == Init /\ [][AuthorNext]_vars

(***************************************************************************)
(* Specification of the catalog: author and book requests in any order     *)
(***************************************************************************)
CatalogCreateAuthor ==
    /\ \E t \in CatalogNames : create_author(t)
    /\ UNCHANGED <<textVars, accountVars, concVars>>

CatalogUpdateAuthor ==
    /\ \E a \in AuthorIds, t \in CatalogNames \cup {None} : update_author(a, t)
    /\ UNCHANGED <<textVars, accountVars, concVars>>

CreateBook ==
    /\ \E t \in TitleTexts, y \in Years, a \in AuthorIds : create_book(t, y, a)
    /\ UNCHANGED <<textVars, accountVars, concVars>>

DeleteBook ==
    /\ \E b \in BookIds : delete_book(b)
    /\ UNCHANGED <<textVars, accountVars, concVars>>

UpdateBook ==
    /\ \E b \in BookIds, t \in TitleTexts \cup {None},
          y \in {NoYear} \cup {<<v>> : v \in Years} : update_book(b, t, y)
    /\ UNCHANGED <<textVars, accountVars, concVars>>

Next ==
    \/ CatalogCreateAuthor
    \/ DeleteAuthor
    \/ CatalogUpdateAuthor
    \/ CreateBook
    \/ DeleteBook
    \/ UpdateBook

Spec == Init /\ [][Next]_vars

(***************************************************************************)
(* Specification of the sanitizers: every text up to MaxLen is sanitized   *)
(***************************************************************************)
TextInit ==
    /\ CatalogInit
    /\ AccountInit
    /\ ConcIdle
    /\ text \in Texts
    /\ result = <<>>
    /\ applied = "none"

SanitizeIn ==
    /\ applied = "none"
    /\ result' = sanitize_text_in(text)
    /\ applied' = "in"
    /\ UNCHANGED <<text, catalogVars, accountVars, concVars>>

SanitizeOut ==
    /\ applied = "none"
    /\ result' = sanitize_text_out(text)
    /\ applied' = "out"
    /\ UNCHANGED <<text, catalogVars, accountVars, concVars>>

TextNext == SanitizeIn \/ SanitizeOut

TextSpec == TextInit /\ [][TextNext]_vars

(***************************************************************************)
(* Concurrent create requests: a handler runs up to its await on           *)
(* session.commit(), other handlers run, then its commit is carried out    *)
(* under the unique constraints and the foreign key of the tables; a       *)
(* delete_author may be handled in between                                 *)
(***************************************************************************)
\* the requests in flight at a time
Slots == 1..MaxRequests

\* the inputs of the concurrent requests
ConcNames == { <<"a">> }
ConcTitles == { <<"a">> }
ConcYears == {1}
ConcPasswords == { <<"p1">> }

\* a row that waits for its commit
Pending(op, txt, email, password, year, author_id) ==
    [op |-> op, text |-> txt, email |-> email, password |-> password,
     year |-> year, author_id |-> author_id]

\* the answer to an exception no handler catches
storage_error == [status |-> 500, detail |-> "Internal Server Error"]

\* models/author.py, models/book.py: the unique constraints
author_name_taken(name) == \E i \in DOMAIN authors : authors[i] = name
book_title_taken(title) == \E i \in DOMAIN books : books[i].title = title

\* create_author up to session.commit()
begin_create_author(slot, name0) ==
    LET name == AuthorSchema_name(name0) IN
    /\ slot \notin DOMAIN inflight
    /\ \E author_db \in Scalar(AuthorsNamed(name)) :
        IF author_db # 0
        THEN /\ last' = Response("create_author", 0, author_db, 400,
                                 "Author already exists")
             /\ UNCHANGED inflight
        ELSE /\ inflight' = Put(inflight, slot,
                                Pending("create_author", name, "", <<>>,
                                        0, 0))
             /\ UNCHANGED last
    /\ UNCHANGED <<authors, books, nextAuthorId, nextBookId,
                   accounts, nextAccountId>>

\* create_book up to session.commit()
begin_create_book(slot, title0, year, author_id) ==
    LET title == BookSchema_title(title0) IN
    /\ slot \notin DOMAIN inflight
    /\ IF ~author_found(author_id)
       THEN /\ last' = Response("create_book", author_id, 0, 404,
                                "Author not found")
            /\ UNCHANGED inflight
       ELSE \E book_db \in Scalar(BooksTitled(title)) :
           IF book_db # 0
           THEN /\ last' = Response("create_book", author_id, book_db,
                                    400, "Book already exists")
                /\ UNCHANGED inflight
           ELSE /\ inflight' = Put(inflight, slot,
                                   Pending("create_book", title, "", <<>>,
                                           year, author_id))
                /\ UNCHANGED last
    /\ UNCHANGED <<authors, books, nextAuthorId, nextBookId,
                   accounts, nextAccountId>>

\* create_account up to session.commit()
begin_create_account(slot, username0, email, password) ==
    LET username == AccountSchema_username(username0) IN
    /\ slot \notin DOMAIN inflight
    /\ \E db_account \in Scalar(AccountsMatching(username, email)) :
        IF db_account # 0 /\ accounts[db_account].username = username
        THEN /\ last' = Response("create_account", 0, db_account, 400,
                                 "Username already exists")
             /\ UNCHANGED inflight
        ELSE IF db_account # 0 /\ accounts[db_account].email = email
        THEN /\ last' = Response("create_account", 0, db_account, 400,
                                 "Email already exists")
             /\ UNCHANGED inflight
        ELSE /\ inflight' = Put(inflight, slot,
                                Pending("create_account", username, email,
                                        stored_password(password), 0, 0))
             /\ UNCHANGED last
    /\ UNCHANGED <<authors, books, nextAuthorId, nextBookId,
                   accounts, nextAccountId>>

\* session.commit() of create_author: the insert, or IntegrityError
commit_author(row) ==
    IF author_name_taken(row.text)
    THEN /\ last' = Response("create_author", 0, 0, storage_error.status,
                             storage_error.detail)
         /\ UNCHANGED <<authors, nextAuthorId>>
    ELSE /\ nextAuthorId <= MaxAuthors
         /\ authors' = Put(authors, nextAuthorId, row.text)
         /\ nextAuthorId' = nextAuthorId + 1
         /\ last' = Response("create_author", nextAuthorId, 0, 201, "")

\* models/book.py: the foreign key of books.author_id to authors.id
author_missing(author_id) == author_id \notin DOMAIN authors

\* session.commit() of create_book: the insert, or IntegrityError
commit_book(row) ==
    IF book_title_taken(row.text) \/ author_missing(row.author_id)
    THEN /\ last' = Response("create_book", row.author_id, 0,
                             storage_error.status, storage_error.detail)
         /\ UNCHANGED <<books, nextBookId>>
    ELSE /\ nextBookId <= MaxBooks
         /\ books' = Put(books, nextBookId,
                [title |-> row.text, year |-> row.year,
                 author_id |-> row.author_id])
         /\ nextBookId' = nextBookId + 1
         /\ last' = Response("create_book", row.author_id, 0, 201, "")

\* session.commit() of create_account: the insert, or IntegrityError
commit_account(row) ==
    LET inserted ==
            Put(accounts, nextAccountId,
                [username |-> row.text, email |-> row.email,
                 password |-> row.password])
    IN  IF unique_violation(inserted)
        THEN /\ last' = Response("create_account", 0, 0,
                                 storage_error.status, storage_error.detail)
             /\ UNCHANGED <<accounts, nextAccountId>>
        ELSE /\ nextAccountId <= MaxAccounts
             /\ accounts' = inserted
             /\ nextAccountId' = nextAccountId + 1
             /\ last' = Response("create_account", nextAccountId, 0, 201,
                                 "")

\* the commit of the request in flight in slot
commit(slot) ==
    /\ slot \in DOMAIN inflight
    /\ inflight' = Remove(inflight, slot)
    /\ CASE inflight[slot].op = "create_author" ->
                /\ commit_author(inflight[slot])
                /\ UNCHANGED <<books, nextBookId, accounts, nextAccountId>>
         [] inflight[slot].op = "create_book" ->
                /\ commit_book(inflight[slot])
                /\ UNCHANGED <<authors, nextAuthorId, accounts,
                               nextAccountId>>
         [] OTHER ->
                /\ commit_account(inflight[slot])
                /\ UNCHANGED <<authors, nextAuthorId, books, nextBookId>>

BeginCreateAuthor ==
    /\ \E s \in Slots, t \in ConcNames : begin_create_author(s, t)
    /\ UNCHANGED <<textVars, tokens, now, auth, issued>>

BeginCreateBook ==
    /\ \E s \in Slots, t \in ConcTitles, y \in ConcYears, a \in AuthorIds :
           begin_create_book(s, t, y, a)
    /\ UNCHANGED <<textVars, tokens, now, auth, issued>>

BeginCreateAccount ==
    /\ \E s \in Slots, u \in TokenUsernames, e \in Emails,
          p \in ConcPasswords : begin_create_account(s, u, e, p)
    /\ UNCHANGED <<textVars, tokens, now, auth, issued>>

Commit ==
    /\ \E s \in Slots : commit(s)
    /\ UNCHANGED <<textVars, tokens, now, auth, issued>>

ConcNext ==
    \/ BeginCreateAuthor
    \/ BeginCreateBook
    \/ BeginCreateAccount
    \/ Commit
    \/ DeleteAuthor

ConcSpec == Init /\ [][ConcNext]_vars

(***************************************************************************)
(* Specification of one request: the service is in a state that earlier    *)
(* requests left, and handles one request on accounts, authors or books    *)
(* with the bearer token it carries                                        *)
(***************************************************************************)
\* the inputs of the request: two sign-up forms, two names and two titles
SystemForms ==
    { [username |-> <<"a">>, email |-> "e1", password |-> <<"p1">>],
      [username |-> <<"b">>, email |-> "e2", password |-> <<"p1">>] }
SystemNames == { <<"a">>, <<"b">> }
SystemTitles == { <<"a">>, <<"b">> }

\* the row create_account stores for a sign-up form
Signed(f) ==
    [username |-> AccountSchema_username(f.username), email |-> f.email,
     password |-> stored_password(f.password)]

\* no request was handled yet
FreshService == CatalogInit /\ AccountInit

\* after create_account (a, e1), a login of that account and
\* create_author a
OneAccountService ==
    /\ accounts = <<Signed([username |-> <<"a">>, email |-> "e1",
                            password |-> <<"p1">>])>>
    /\ nextAccountId = 2
    /\ now = 0
    /\ tokens = {create_access_token("e1")}
    /\ issued = {<<create_access_token("e1"), 1>>}
    /\ auth = "none"
    /\ authors = << <<"a">> >>
    /\ nextAuthorId = 2
    /\ books = <<>>
    /\ nextBookId = 1
    /\ last = NoRequest

\* after create_account (a, e1) and (b, e2), a login of the first account,
\* create_author a, update_author 1 to a, create_author b, create_book a
\* of author 1 and create_book b of author 2
FullService ==
    /\ accounts = <<Signed([username |-> <<"a">>, email |-> "e1",
                            password |-> <<"p1">>]),
                    Signed([username |-> <<"b">>, email |-> "e2",
                            password |-> <<"p1">>])>>
    /\ nextAccountId = 3
    /\ now = 0
    /\ tokens = {create_access_token("e1")}
    /\ issued = {<<create_access_token("e1"), 1>>}
    /\ auth = "none"
    /\ authors = << <<"A">>, <<"b">> >>
    /\ nextAuthorId = 3
    /\ books = <<[title |-> <<"a">>, year |-> 1, author_id |-> 1],
                 [title |-> <<"b">>, year |-> 1, author_id |-> 2]>>
    /\ nextBookId = 3
    /\ last = NoRequest

\* the state FullService with a login of the second account instead of the
\* first: authors and books carry no reference to an account, so the
\* catalog is the same whichever account filled it
OtherCallerService ==
    /\ accounts = <<Signed([username |-> <<"a">>, email |-> "e1",
                            password |-> <<"p1">>]),
                    Signed([username |-> <<"b">>, email |-> "e2",
                            password |-> <<"p1">>])>>
    /\ nextAccountId = 3
    /\ now = 0
    /\ tokens = {create_access_token("e2")}
    /\ issued = {<<create_access_token("e2"), 2>>}
    /\ auth = "none"
    /\ authors = << <<"A">>, <<"b">> >>
    /\ nextAuthorId = 3
    /\ books = <<[title |-> <<"a">>, year |-> 1, author_id |-> 1],
                 [title |-> <<"b">>, year |-> 1, author_id |-> 2]>>
    /\ nextBookId = 3
    /\ last = NoRequest

\* after create_account (a, e1) and (b, e2), a login of the first account,
\* create_author a, update_author 1 to a, create_author b and create_book a
\* and b, both of author 1
TwoBooksService ==
    /\ accounts = <<Signed([username |-> <<"a">>, email |-> "e1",
                            password |-> <<"p1">>]),
                    Signed([username |-> <<"b">>, email |-> "e2",
                            password |-> <<"p1">>])>>
    /\ nextAccountId = 3
    /\ now = 0
    /\ tokens = {create_access_token("e1")}
    /\ issued = {<<create_access_token("e1"), 1>>}
    /\ auth = "none"
    /\ authors = << <<"A">>, <<"b">> >>
    /\ nextAuthorId = 3
    /\ books = <<[title |-> <<"a">>, year |-> 1, author_id |-> 1],
                 [title |-> <<"b">>, year |-> 1, author_id |-> 1]>>
    /\ nextBookId = 3
    /\ last = NoRequest

\* after create_account (a, e1), a login of that account and its
\* delete_account
StaleTokenService ==
    /\ accounts = <<>>
    /\ nextAccountId = 2
    /\ now = 0
    /\ tokens = {create_access_token("e1")}
    /\ issued = {<<create_access_token("e1"), 1>>}
    /\ auth = "none"
    /\ authors = <<>>
    /\ nextAuthorId = 1
    /\ books = <<>>
    /\ nextBookId = 1
    /\ last = NoRequest

RequestInit ==
    /\ \/ FreshService
       \/ OneAccountService
       \/ FullService
       \/ OtherCallerService
       \/ TwoBooksService
       \/ StaleTokenService
    /\ TextIdle
    /\ ConcIdle

\* a handler without the dependency on the caller's account: it runs
\* whether or not the token resolves
Authenticated_unchecked(token, op, id, handler) ==
    \E current \in get_current_account(token) :
        /\ auth' = current.cause
        /\ handler

\* account: CurrentAccount in the signature of a handler of authors_router
\* and books_router: the handler runs once the token resolves, otherwise
\* the request ends with the exception of get_current_account
Authenticated(token, op, id, handler) ==
    \E current \in get_current_account(token) :
        /\ auth' = current.cause
        /\ IF current.id = 0
           THEN /\ last' = Unauthorized(op, id, current.cause)
                /\ UNCHANGED <<authors, books, nextAuthorId, nextBookId>>
           ELSE handler

\* the request is the first one handled in this state
Unanswered == last = NoRequest

SystemCreateAccount ==
    /\ Unanswered
    /\ \E f \in SystemForms :
           create_account(f.username, f.email, f.password)
    /\ UNCHANGED <<textVars, concVars, issued>>

SystemUpdateAccount ==
    /\ Unanswered
    /\ \E t \in Bearers, i \in AccountIds, f \in SystemForms :
           update_account(t, i, f.username, f.email, f.password)
    /\ UNCHANGED <<textVars, concVars, issued>>

SystemDeleteAccount ==
    /\ Unanswered
    /\ \E t \in Bearers, i \in AccountIds : delete_account(t, i)
    /\ UNCHANGED <<textVars, concVars, issued>>

SystemLogin ==
    /\ Unanswered
    /\ \E e \in Emails, p \in Passwords : login_for_access_token(e, p)
    /\ RecordIssue
    /\ UNCHANGED <<textVars, concVars>>

SystemCreateAuthor ==
    /\ Unanswered
    /\ \E t \in Bearers, n \in SystemNames :
           Authenticated(t, "create_author", 0, create_author(n))
    /\ UNCHANGED <<textVars, concVars, accounts, nextAccountId, tokens, now,
                   issued>>

SystemUpdateAuthor ==
    /\ Unanswered
    /\ \E t \in Bearers, a \in AuthorIds, n \in SystemNames \cup {None} :
           Authenticated(t, "update_author", a, update_author(a, n))
    /\ UNCHANGED <<textVars, concVars, accounts, nextAccountId, tokens, now,
                   issued>>

SystemDeleteAuthor ==
    /\ Unanswered
    /\ \E t \in Bearers, a \in AuthorIds :
           Authenticated(t, "delete_author", a, delete_author(a))
    /\ UNCHANGED <<textVars, concVars, accounts, nextAccountId, tokens, now,
                   issued>>

SystemCreateBook ==
    /\ Unanswered
    /\ \E t \in Bearers, n \in SystemTitles, y \in Years, a \in AuthorIds :
           Authenticated(t, "create_book", a, create_book(n, y, a))
    /\ UNCHANGED <<textVars, concVars, accounts, nextAccountId, tokens, now,
                   issued>>

SystemUpdateBook ==
    /\ Unanswered
    /\ \E t \in Bearers, b \in BookIds, n \in SystemTitles \cup {None},
          y \in {NoYear} \cup {<<v>> : v \in Years} :
           Authenticated(t, "update_book", b, update_book(b, n, y))
    /\ UNCHANGED <<textVars, concVars, accounts, nextAccountId, tokens, now,
                   issued>>

SystemDeleteBook ==
    /\ Unanswered
    /\ \E t \in Bearers, b \in BookIds :
           Authenticated(t, "delete_book", b, delete_book(b))
    /\ UNCHANGED <<textVars, concVars, accounts, nextAccountId, tokens, now,
                   issued>>

RequestNext ==
    \/ SystemCreateAccount
    \/ SystemUpdateAccount
    \/ SystemDeleteAccount
    \/ SystemLogin
    \/ SystemCreateAuthor
    \/ SystemUpdateAuthor
    \/ SystemDeleteAuthor
    \/ SystemCreateBook
    \/ SystemUpdateBook
    \/ SystemDeleteBook

RequestSpec == RequestInit /\ [][RequestNext]_vars

(***************************************************************************)
(* Properties of the sanitizers (TextSpec)                                 *)
(***************************************************************************)
\* the text has the shape the storage form is meant to have: no upper-case
\* letter, no '?' or '!', no whitespace at either end, no two whitespace
\* characters in a row
StorageShaped(s) ==
    /\ \A i \in 1..Len(s) : s[i] \notin Upper \cup Marks
    /\ s # <<>> => ~IsSpace(s[1]) /\ ~IsSpace(s[Len(s)])
    /\ \A i \in 1..(Len(s) - 1) : ~(IsSpace(s[i]) /\ IsSpace(s[i + 1]))

\* C3: sanitize_text_in is idempotent: sanitizing its result again gives
\* the same text.
C3_InIdempotent == applied = "in" => sanitize_text_in(result) = result

C5_InStorageShaped == applied = "in" => StorageShaped(result)

(***************************************************************************)
(* Properties of the authors (AuthorSpec)                                  *)
(***************************************************************************)
\* two texts with the same normalized-for-storage form
SameStoredForm(s, t) == sanitize_text_in(s) = sanitize_text_in(t)

\* C1: no two distinct authors have names with the same
\* normalized-for-storage form.
C1_NoNormalizedDuplicate ==
    \A a, b \in DOMAIN authors :
        a # b => ~SameStoredForm(authors[a], authors[b])

\* C2: create_author with a name whose normalized-for-storage form equals
\* that of an existing author's name fails with 'Author already exists' and
\* adds no author.
C2_CreateDuplicateFails ==
    [][\A t \in NameTexts :
        (/\ create_author(t)
         /\ \E a \in DOMAIN authors : SameStoredForm(authors[a], t))
        => (/\ last'.status = 400
            /\ last'.detail = "Author already exists"
            /\ authors' = authors)]_vars

\* C6: update_author(id, new_name) fails with 'Author already exists' and
\* changes no author whenever another author's stored name equals the
\* normalized-for-storage form of new_name.
C6_UpdateDuplicateFails ==
    [][\A a \in AuthorIds, t \in NameTexts :
        (/\ update_author(a, t)
         /\ a \in DOMAIN authors
         /\ \E o \in DOMAIN authors \ {a} : authors[o] = sanitize_text_in(t))
        => (/\ last'.status = 400
            /\ last'.detail = "Author already exists"
            /\ authors' = authors)]_vars

\* C7: update_author(id, new_name) succeeds, and so never fails with
\* 'Author already exists', when the author id is the only author whose name
\* matches new_name (has the same normalized-for-storage form).
C7_SelfRenameSucceeds ==
    [][\A a \in AuthorIds, t \in NameTexts :
        (/\ last'.op = "update_author"
         /\ update_author(a, t)
         /\ a \in DOMAIN authors
         /\ SameStoredForm(authors[a], t)
         /\ \A o \in DOMAIN authors \ {a} : ~SameStoredForm(authors[o], t))
        => (/\ last'.status = 200
            /\ a \in DOMAIN authors'
            /\ SameStoredForm(authors'[a], t))]_vars

\* C7 happens: an update found the author itself under the new name and
\* succeeded
C7_Witness ==
    /\ last.op = "update_author"
    /\ last.status = 200
    /\ last.found # 0
    /\ last.found = last.id
    /\ last.id \in DOMAIN authors

(***************************************************************************)
(* Properties of the catalog (Spec)                                        *)
(***************************************************************************)
\* C8: no two distinct books have titles that are equal under
\* case-insensitive comparison.
C8_TitlesUnique ==
    \A x, y \in DOMAIN books :
        x # y => str_lower(books[x].title) # str_lower(books[y].title)

\* C8 happens: with two books stored, a create or an update was refused
\* because its title is taken by another book
C8_Witness ==
    /\ Cardinality(DOMAIN books) >= 2
    /\ last.op \in {"create_book", "update_book"}
    /\ last.status = 400
    /\ last.found \in DOMAIN books

\* C9: create_book with an author_id of no existing author fails with
\* 'Author not found' and adds no book, whatever the title.
C9_MissingAuthorNotFound ==
    [][last'.op = "create_book" =>
        \A a \in AuthorIds \ DOMAIN authors, t \in TitleTexts, y \in Years :
            create_book(t, y, a)
            => (/\ last'.status = 404
                /\ last'.detail = "Author not found"
                /\ books' = books)]_vars

\* C9 happens: create_book failed for a missing author while every title
\* that can be submitted is the title of a stored book
C9_Witness ==
    /\ last.op = "create_book"
    /\ last.status = 404
    /\ last.id \notin DOMAIN authors
    /\ \A t \in TitleTexts : BooksTitled(BookSchema_title(t)) # {}

\* C10: every stored book's author_id is the id of an existing author.
C10_BooksHaveAuthors ==
    \A b \in DOMAIN books : books[b].author_id \in DOMAIN authors

\* C10 happens: an author was deleted, books that were created are gone and
\* a book of another author remains
C10_Witness ==
    /\ last.op = "delete_author"
    /\ last.status = 200
    /\ DOMAIN books # {}
    /\ Cardinality(DOMAIN books) < nextBookId - 1

(***************************************************************************)
(* Properties of the accounts (AccountSpec)                                *)
(***************************************************************************)
\* the row of account i is written or removed by the step
AccountTouched(i) ==
    /\ i \in DOMAIN accounts
    /\ \/ i \notin DOMAIN accounts'
       \/ accounts'[i] # accounts[i]

\* the last request was an update or a delete of an account sent by a
\* caller whose token resolved to an account
OnAccountByCaller(r) ==
    /\ r.op \in {"update_account", "delete_account"}
    /\ r.found # 0

\* C11: an account is modified or deleted only by a request whose resolved
\* identity has the id of the target account; a request of another caller
\* is answered 403 'Not enough permissions' and changes no account; a
\* caller's delete of its own account succeeds and the record is gone
C11_OnlySelfModifies ==
    [][/\ \A i \in AccountIds :
              AccountTouched(i) =>
                  /\ OnAccountByCaller(last')
                  /\ last'.id = i
                  /\ last'.found = i
                  /\ last'.status = 200
       /\ (OnAccountByCaller(last') /\ last'.found # last'.id) =>
              /\ last'.status = 403
              /\ last'.detail = "Not enough permissions"
              /\ accounts' = accounts
       /\ (last'.op = "delete_account" /\ last'.found # 0
               /\ last'.found = last'.id) =>
              /\ last'.status = 200
              /\ last'.id \notin DOMAIN accounts'
      ]_vars

\* a caller asked to change the account of somebody else and was refused
C11_Witness ==
    /\ OnAccountByCaller(last)
    /\ last.status = 403
    /\ last.id \in DOMAIN accounts
    /\ last.found \in DOMAIN accounts
    /\ last.found # last.id

(***************************************************************************)
(* Properties of the tokens (TokenSpec)                                    *)
(***************************************************************************)
\* C12: a token issued at tick t expires at t + TokenTtl; while an account
\* has the e-mail the token names, the token is accepted at every tick
\* before its expiry and rejected as expired, with the 401 of a failed
\* authentication, at every tick after it
C12_TokenLifetime ==
    /\ [][\A tok \in tokens' \ tokens : tok.exp = now + TokenTtl]_vars
    /\ [](/\ \A tok \in tokens :
                AccountsWithEmail(tok.sub) # {} =>
                    /\ now < tok.exp =>
                           \A c \in get_current_account(tok) :
                               /\ c.cause = "ok"
                               /\ c.id \in AccountsWithEmail(tok.sub)
                    /\ now > tok.exp =>
                           \A c \in get_current_account(tok) :
                               /\ c.cause = "ExpiredSignatureError"
                               /\ c.id = 0
          /\ auth = "ExpiredSignatureError" => last.status = 401)

\* a request carried the token of an existing account after its expiry and
\* was rejected
C12_Witness ==
    /\ auth = "ExpiredSignatureError"
    /\ last.status = 401
    /\ \E tok \in tokens :
           /\ now > tok.exp
           /\ AccountsWithEmail(tok.sub) # {}

\* the ways get_current_account fails
TokenFailures ==
    {"DecodeError", "ExpiredSignatureError", "no_subject", "no_account"}

C14_LoginFailuresAlike ==
    (last.op = "login" /\ last.status # 200) =>
        /\ last.status = 400
        /\ last.detail = "Incorrect email or password"
        /\ last.id = 0

\* a login named an existing account with a wrong password and failed
C14_Witness ==
    /\ last.op = "login"
    /\ last.status = 400
    /\ last.found \in DOMAIN accounts
    /\ \E p \in Passwords : ~verify_password(p, accounts[last.found].password)

\* the last request failed to authenticate: a login with bad credentials,
\* or a request whose token did not resolve
LoginFailed == last.op = "login" /\ last.status # 200
TokenFailed == auth \in TokenFailures
AuthenticationFailed == LoginFailed \/ TokenFailed

C16_AccountsUnique ==
    \A i \in DOMAIN accounts, j \in DOMAIN accounts :
        i # j =>
            /\ accounts[i].username # accounts[j].username
            /\ accounts[i].email # accounts[j].email

\* an account asked for the username or the e-mail of another account and
\* the update was refused
C16_Witness ==
    /\ last.op = "update_account"
    /\ last.status = 409
    /\ Cardinality(DOMAIN accounts) = 2

\* C17: create_account reports the field that collided, the username
\* first: when the candidate username is the username of any account the
\* answer is 'Username already exists', also when the e-mail collides too,
\* with the same or with another account; it is 'Email already exists'
\* only when no account has the username and one has the e-mail; in both
\* cases no account is added
C17_UsernameReportedFirst ==
    [][last'.op = "create_account" =>
           \A u \in UsernameTexts, e \in Emails, p \in Passwords :
               create_account(u, e, p) =>
                   LET username == AccountSchema_username(u)
                       sameName == {i \in DOMAIN accounts :
                                        accounts[i].username = username}
                       sameMail == {i \in DOMAIN accounts :
                                        accounts[i].email = e}
                   IN  /\ sameName # {} =>
                              /\ last'.status = 400
                              /\ last'.detail = "Username already exists"
                              /\ accounts' = accounts
                       /\ (sameName = {} /\ sameMail # {}) =>
                              /\ last'.status = 400
                              /\ last'.detail = "Email already exists"
                              /\ accounts' = accounts
      ]_vars

\* C18: the password stored for an account is the hash of the plaintext
\* submitted last for it, by the create_account that made it or by its
\* latest update_account, and never the plaintext; no other request
\* changes it
C18_PasswordHashed ==
    [][/\ (last'.op = "create_account" /\ last'.status = 201) =>
              \A u \in UsernameTexts, e \in Emails, p \in Passwords :
                  (/\ accounts'[last'.id].email = e
                   /\ create_account(u, e, p)) =>
                      /\ verify_password(p, accounts'[last'.id].password)
                      /\ accounts'[last'.id].password # p
       /\ (last'.op = "update_account" /\ last'.status = 200) =>
              \A t \in Bearers, u \in UsernameTexts, e \in Emails,
                 p \in Passwords :
                  (/\ accounts'[last'.id].email = e
                   /\ update_account(t, last'.id, u, e, p)) =>
                      /\ verify_password(p, accounts'[last'.id].password)
                      /\ accounts'[last'.id].password # p
       /\ accounts' # accounts =>
              /\ \A i \in DOMAIN accounts \cap DOMAIN accounts' :
                     accounts'[i].password # accounts[i].password =>
                         /\ last'.op = "update_account"
                         /\ last'.status = 200
                         /\ last'.id = i
              /\ \A i \in DOMAIN accounts' :
                     accounts'[i].password \notin Passwords
      ]_vars

\* an account replaced its password and the hash of the new one is stored
C18_Witness ==
    /\ last.op = "update_account"
    /\ last.status = 200
    /\ last.id \in DOMAIN accounts
    /\ verify_password(<<"p2">>, accounts[last.id].password)
    /\ \E j \in DOMAIN accounts :
           verify_password(<<"p1">>, accounts[j].password)

(***************************************************************************)
(* Properties of the concurrent create requests (ConcSpec)                 *)
(***************************************************************************)
\* the unique value of the row that waits for its commit is already stored:
\* another request that passed the pre-check too has committed it
LostRace(row) ==
    CASE row.op = "create_author" ->
             \E i \in DOMAIN authors : authors[i] = row.text
      [] row.op = "create_book" ->
             \E i \in DOMAIN books : books[i].title = row.text
      [] OTHER ->
             \E i \in DOMAIN accounts :
                 \/ accounts[i].username = row.text
                 \/ accounts[i].email = row.email

\* the messages of a create request that fails its pre-check
DuplicateDetails ==
    {"Author already exists", "Book already exists",
     "Username already exists", "Email already exists"}

\* C19: when two create requests with the same unique value both pass the
\* pre-check before either commits, one is persisted and the commit of the
\* other persists nothing and is answered like a request that fails the
\* pre-check: 400 and the 'already exists' message, not a storage error
C19_RaceLoserGetsDuplicate ==
    [][\A s \in Slots :
           (s \in DOMAIN inflight /\ LostRace(inflight[s]) /\ commit(s)) =>
               /\ last'.status = 400
               /\ last'.detail \in DuplicateDetails
               /\ UNCHANGED <<authors, books, accounts>>
      ]_vars

(***************************************************************************)
(* Properties of one request (RequestSpec)                                 *)
(***************************************************************************)
\* the statuses of a request that fails: a duplicate (400, 409), a failed
\* authentication (400 of a login, 401), a refused permission (403), a
\* missing entity (404)
FailureStatuses == {400, 401, 403, 404, 409}

\* C20: a request that ends in a failure leaves the accounts, the authors
\* and the books exactly as they were before it
C20_FailureChangesNothing ==
    [][last'.status \in FailureStatuses =>
           UNCHANGED <<accounts, authors, books>>]_vars

\* an update_book was refused for a title another book has, with both
\* books, their authors and the accounts in place
C20_Witness ==
    /\ last.op = "update_book"
    /\ last.status = 400
    /\ Cardinality(DOMAIN books) = 2
    /\ Cardinality(DOMAIN authors) = 2
    /\ Cardinality(DOMAIN accounts) = 2

(***************************************************************************)
(* Properties of the issued tokens (AccountSpec, TokenSpec)                *)
(***************************************************************************)
\* C21: a token is never revoked before its expiry: as long as the account
\* it was issued to exists, the token resolves to that account at every
\* tick before its expiry, whatever requests were handled in between
C21_NotRevoked ==
    \A p \in issued :
        (p[2] \in DOMAIN accounts /\ now < p[1].exp) =>
            \A c \in get_current_account(p[1]) :
                /\ c.cause = "ok"
                /\ c.id = p[2]

\* C22: a token issued to an account never resolves to an account with
\* another id: a request that carries it resolves to that account or fails
\* identity resolution, also after the account was deleted or changed its
\* e-mail and another account registered with that e-mail
C22_NeverAnotherAccount ==
    \A p \in issued :
        \A c \in get_current_account(p[1]) :
            c.id = 0 \/ c.id = p[2]

\* C23: login issues a token exactly when an account has the submitted
\* e-mail and the submitted password verifies against the hash stored for
\* it now; the subject of the token is the e-mail of that account; a login
\* that fails issues nothing.  So after update_account replaced the
\* password the old one fails and the new one succeeds
C23_LoginIffVerified ==
    [][last'.op = "login" =>
           \A e \in Emails, p \in Passwords :
               login_for_access_token(e, p) =>
                   LET verified ==
                           {i \in DOMAIN accounts :
                                /\ accounts[i].email = e
                                /\ accounts[i].password = <<"$argon2id$", p[1]>>}
                   IN  /\ last'.status = 200 <=> verified # {}
                       /\ last'.status = 200 =>
                              /\ last'.id \in verified
                              /\ [kind |-> "jwt", sub |-> e,
                                  exp |-> now + TokenTtl] \in tokens'
                       /\ last'.status # 200 => tokens' = tokens
      ]_vars

\* an account whose stored hash is the one of p2 logged in with p2
C23_Witness ==
    /\ last.op = "login"
    /\ last.status = 200
    /\ last.id \in DOMAIN accounts
    /\ accounts[last.id].password = <<"$argon2id$", "p2">>
    /\ \E tok \in tokens : tok.sub = accounts[last.id].email

\* C24: refresh returns a new token exactly when the token presented
\* resolves to an account now; the subject of the new token is the e-mail
\* that account has now and its expiry is the tick of the refresh plus
\* TokenTtl; otherwise, as with an expired token, it fails with the 401 of
\* a failed authentication and issues no token
C24_RefreshOnlyResolved ==
    [][last'.op = "refresh" =>
           \A t \in Bearers :
               refresh_access_token(t) =>
                   LET holders ==
                           IF t.kind = "jwt" /\ now < t.exp /\ t.sub # NoSub
                           THEN {i \in DOMAIN accounts :
                                     accounts[i].email = t.sub}
                           ELSE {}
                   IN  /\ last'.status = 200 <=> holders # {}
                       /\ last'.status = 200 =>
                              /\ last'.id \in holders
                              /\ [kind |-> "jwt",
                                  sub |-> accounts[last'.id].email,
                                  exp |-> now + TokenTtl] \in tokens'
                       /\ last'.status # 200 =>
                              /\ last'.status = 401
                              /\ last'.detail =
                                     "Could not validate credentials"
                              /\ tokens' = tokens
      ]_vars

\* a refresh with the expired token of an existing account was refused
C24_Witness ==
    /\ last.op = "refresh"
    /\ last.status = 401
    /\ auth = "ExpiredSignatureError"
    /\ \E tok \in tokens :
           /\ tok.exp <= now
           /\ AccountsWithEmail(tok.sub) # {}

(***************************************************************************)
(* Further properties of the catalog (Spec)                                *)
(***************************************************************************)
\* the text is lower-case and holds neither '?' nor '!'
LowerWithoutMarks(s) ==
    \A i \in 1..Len(s) : s[i] \notin Upper /\ s[i] \notin Marks

\* C25: after any sequence of create and update requests every stored
\* author name and every stored book title is in the form kept for
\* storage: lower-case and without '?' and '!'
C25_StoredNormalized ==
    /\ \A a \in DOMAIN authors : LowerWithoutMarks(authors[a])
    /\ \A b \in DOMAIN books : LowerWithoutMarks(books[b].title)

(***************************************************************************)
(* Further properties of one request (RequestSpec)                         *)
(***************************************************************************)
CatalogOps ==
    {"create_author", "update_author", "delete_author",
     "create_book", "update_book", "delete_book"}

\* C26: a request without a resolved identity creates, changes and deletes
\* no author and no book; a request of any resolved identity is never
\* refused on grounds of identity or ownership, whoever created the entry:
\* its delete of an existing author or book succeeds
C26_CatalogNeedsIdentityOnly ==
    [][last'.op \in CatalogOps =>
          /\ (authors' # authors \/ books' # books) => auth' = "ok"
          /\ auth' # "ok" =>
                 /\ last'.status = 401
                 /\ UNCHANGED <<authors, books, nextAuthorId, nextBookId>>
          /\ auth' = "ok" =>
                 /\ last'.status \notin {401, 403}
                 /\ (last'.op = "delete_author"
                        /\ last'.id \in DOMAIN authors) =>
                        /\ last'.status = 200
                        /\ last'.id \notin DOMAIN authors'
                 /\ (last'.op = "delete_book"
                        /\ last'.id \in DOMAIN books) =>
                        /\ last'.status = 200
                        /\ last'.id \notin DOMAIN books']_vars

\* a caller resolved to the second account deleted author 1
C26_Witness ==
    /\ last.op = "delete_author"
    /\ last.status = 200
    /\ last.id = 1
    /\ auth = "ok"
    /\ \A t \in tokens : t.sub = "e2"
    /\ tokens # {}

(***************************************************************************)
(* Further properties of the accounts (AccountSpec)                        *)
(***************************************************************************)
\* another account than account_id has the username or the e-mail
HeldByAnother(account_id, username, email) ==
    \E j \in DOMAIN accounts :
        /\ j # account_id
        /\ \/ accounts[j].username = username
           \/ accounts[j].email = email

\* C27: an update_account of the caller's own account that asks for a
\* username or an e-mail another account has ends with 409 'Username or
\* email already exists' and leaves every account as it was; one that asks
\* for values no other account has, the account's own current values
\* among them, does not end with the conflict: it succeeds
C27_UpdateConflict ==
    [][(last'.op = "update_account" /\ last'.status \notin {401, 403}) =>
           LET i == last'.id
               Asked(u, e) ==
                   \E t \in Bearers, p \in Passwords :
                       update_account(t, i, u, e, p)
               Held(u, e) ==
                   HeldByAnother(i, AccountSchema_username(u), e)
           IN
           /\ last'.status \in {200, 409}
           /\ last'.status = 409 =>
                  /\ last'.detail = "Username or email already exists"
                  /\ accounts' = accounts
                  /\ \A u \in UsernameTexts, e \in Emails :
                         ~Held(u, e) => ~Asked(u, e)
           /\ last'.status = 200 =>
                  /\ \A u \in UsernameTexts, e \in Emails :
                         Held(u, e) => ~Asked(u, e)
                  /\ \A j \in DOMAIN accounts \ {i} :
                         /\ j \in DOMAIN accounts'
                         /\ accounts'[j] = accounts[j]]_vars

\* the caller asked for the username or the e-mail of the other account
\* and was refused with the conflict
C27_Witness ==
    /\ last.op = "update_account"
    /\ last.status = 409
    /\ last.detail = "Username or email already exists"
    /\ last.found = last.id
    /\ \E j \in DOMAIN accounts : j # last.id


\* C28: delete_author of an existing author removes that author and
\* exactly the books whose author_id is the author's id; every other
\* author, every other book and every account stay as they were; of an id
\* no author has it ends with 404 'Author not found' and changes nothing
C28_DeleteAuthorFrame ==
    [][(last'.op = "delete_author" /\ last'.status # 401) =>
           LET id == last'.id IN
           IF id \in DOMAIN authors
           THEN /\ last'.status = 200
                /\ DOMAIN authors' = DOMAIN authors \ {id}
                /\ \A a \in DOMAIN authors' : authors'[a] = authors[a]
                /\ DOMAIN books' =
                       {b \in DOMAIN books : books[b].author_id # id}
                /\ \A b \in DOMAIN books' : books'[b] = books[b]
                /\ accounts' = accounts
           ELSE /\ last'.status = 404
                /\ last'.detail = "Author not found"
                /\ authors' = authors
                /\ books' = books
                /\ accounts' = accounts]_vars

\* an author was deleted with its book while the other author, that
\* author's book and the accounts remain
C28_Witness ==
    /\ last.op = "delete_author"
    /\ last.status = 200
    /\ Cardinality(DOMAIN authors) = 1
    /\ Cardinality(DOMAIN books) = 1
    /\ \A b \in DOMAIN books : books[b].author_id \in DOMAIN authors
    /\ Cardinality(DOMAIN accounts) = 2
    /\ nextBookId = 3


(***************************************************************************)
(* Further properties of the books (Spec)                                  *)
(***************************************************************************)
\* C29: update_book of an existing book with a year and no title stores
\* the year, whatever integer it is, zero and the negative ones included,
\* and keeps the title and the author_id; no update_book changes the
\* author_id of a book
C29_YearOnlyUpdate ==
    [][last'.op = "update_book" =>
           /\ \A b \in DOMAIN books :
                  /\ b \in DOMAIN books'
                  /\ books'[b].author_id = books[b].author_id
           /\ \A b \in DOMAIN books, y \in Years :
                  update_book(b, None, <<y>>) =>
                      /\ last'.status = 200
                      /\ books'[b].year = y
                      /\ books'[b].title = books[b].title]_vars


(***************************************************************************)
(* Further properties of the concurrent requests (ConcSpec)                *)
(***************************************************************************)
\* every book refers to an author of the table
NoDanglingBook ==
    \A b \in DOMAIN books : books[b].author_id \in DOMAIN authors

\* C30: when the author of a create_book in flight was deleted between
\* the author check of the handler and its insert, the commit stores no
\* book of the deleted author and the request ends with 404 'Author not
\* found', not with the error of the storage
C30_CreateBookAfterDelete ==
    [][\A s \in DOMAIN inflight :
           (/\ inflight[s].op = "create_book"
            /\ inflight[s].author_id \notin DOMAIN authors
            /\ commit(s)) =>
               /\ books' = books
               /\ NoDanglingBook'
               /\ last'.op = "create_book"
               /\ last'.status = 404
               /\ last'.detail = "Author not found"]_vars

====
